---- MODULE Spec2Model ----
(***************************************************************************)
(* docker-pg-backup (src/main.go): one run of the backup pipeline.         *)
(*                                                                         *)
(* Three sequential agents are modelled: the main goroutine (main, Backup, *)
(* DumpDB), the copier goroutine started by DumpDB, and the child process  *)
(* "docker exec ... pg_dump" whose stdout is connected to the copier by an *)
(* OS pipe.  Strings that the program takes apart or concatenates are      *)
(* sequences of one-character strings.                                     *)
(***************************************************************************)
EXTENDS Integers, Sequences, FiniteSets, TLC

(***************************************************************************)
(* Bounds of the model.                                                    *)
(***************************************************************************)
\* largest number of bytes the dump command writes to its stdout
MaxDump == 5
\* capacity of the kernel pipe buffer, in bytes
PipeCap == 2
\* size of io.Copy's transfer buffer, in bytes
CopyBuf == 1

Min(a, b) == IF a < b THEN a ELSE b

IsPrefix(s, t) == Len(s) <= Len(t) /\ SubSeq(t, 1, Len(s)) = s

(***************************************************************************)
(* String literals of the program, as character sequences.                 *)
(***************************************************************************)
SLASH == <<"/">>
DOT == <<".">>
DOTDOT == <<".", ".">>
DOCKER == <<"d", "o", "c", "k", "e", "r">>
EXEC == <<"e", "x", "e", "c">>
PG_DUMP == <<"p", "g", "_", "d", "u", "m", "p">>
DASH_U == <<"-", "U">>
SQL_GZ == <<".", "s", "q", "l", ".", "g", "z">>
DefaultPrefix == <<"p", "b">>

(***************************************************************************)
(* path.Join and path.Clean (Go standard library), used at main.go:121.    *)
(***************************************************************************)
RECURSIVE SplitAcc(_, _, _)
SplitAcc(s, cur, acc) ==
    IF s = <<>> THEN Append(acc, cur)
    ELSE IF Head(s) = "/" THEN SplitAcc(Tail(s), <<>>, Append(acc, cur))
    ELSE SplitAcc(Tail(s), Append(cur, Head(s)), acc)

\* the "/"-separated elements of s, empty ones included
Split(s) == SplitAcc(s, <<>>, <<>>)

RECURSIVE JoinWith(_, _)
JoinWith(elems, sep) ==
    IF elems = <<>> THEN <<>>
    ELSE IF Len(elems) = 1 THEN Head(elems)
    ELSE Head(elems) \o sep \o JoinWith(Tail(elems), sep)

RECURSIVE CleanElems(_, _, _)
CleanElems(elems, rooted, out) ==
    IF elems = <<>> THEN out
    ELSE LET e == Head(elems)
             r == Tail(elems)
         IN  IF Len(e) = 0 \/ e = DOT THEN CleanElems(r, rooted, out)
             ELSE IF e = DOTDOT
             THEN IF Len(out) > 0 /\ out[Len(out)] # DOTDOT
                  THEN CleanElems(r, rooted, SubSeq(out, 1, Len(out) - 1))
                  ELSE IF rooted THEN CleanElems(r, rooted, out)
                  ELSE CleanElems(r, rooted, Append(out, DOTDOT))
             ELSE CleanElems(r, rooted, Append(out, e))

\* path.Clean: collapse slashes, drop ".", resolve "..", "" becomes "."
Clean(p) ==
    IF Len(p) = 0 THEN DOT
    ELSE LET rooted == p[1] = "/"
             body == JoinWith(CleanElems(Split(p), rooted, <<>>), SLASH)
         IN  IF rooted THEN SLASH \o body
             ELSE IF Len(body) = 0 THEN DOT
             ELSE body

NonEmpty(e) == Len(e) > 0

\* path.Join: empty elements are ignored, the result is cleaned
Join(elems) ==
    LET ne == SelectSeq(elems, NonEmpty)
    IN  IF Len(ne) = 0 THEN <<>> ELSE Clean(JoinWith(ne, SLASH))

(***************************************************************************)
(* time.Time.Format("2006-01-02T15_04_05.999999999"), main.go:121.         *)
(***************************************************************************)
Digit(n) == <<"0", "1", "2", "3", "4", "5", "6", "7", "8", "9">>[n + 1]

RECURSIVE Pad(_, _)
\* n in decimal, zero-padded to w digits
Pad(n, w) == IF w = 0 THEN <<>> ELSE Append(Pad(n \div 10, w - 1), Digit(n % 10))

RECURSIVE StripZeros(_)
StripZeros(d) ==
    IF Len(d) = 0 THEN <<>>
    ELSE IF d[Len(d)] = "0" THEN StripZeros(SubSeq(d, 1, Len(d) - 1))
    ELSE d

\* ".999999999": fractional second, trailing zeros removed, omitted if zero
Frac(ns) ==
    LET d == StripZeros(Pad(ns, 9))
    IN  IF Len(d) = 0 THEN <<>> ELSE DOT \o d

Format(t) ==
    Pad(t.year, 4) \o <<"-">> \o Pad(t.month, 2) \o <<"-">> \o Pad(t.day, 2)
    \o <<"T">> \o Pad(t.hour, 2) \o <<"_">> \o Pad(t.min, 2) \o <<"_">>
    \o Pad(t.sec, 2) \o Frac(t.nsec)

\* an object key with the database name put before the prefix
ObjectNameDBFirst(prefix, db, t) == Join(<<db, prefix, Format(t) \o SQL_GZ>>)

\* the object key computed by Backup
ObjectName(prefix, db, t) == Join(<<prefix, db, Format(t) \o SQL_GZ>>)

(***************************************************************************)
(* The dump command line built by DumpDB.                                  *)
(***************************************************************************)
\* the argument list with the user and the database exchanged
ArgsSwapped(container, db, user) ==
    <<DOCKER, EXEC, container, PG_DUMP, DASH_U, db, user>>

Args(container, db, user) ==
    <<DOCKER, EXEC, container, PG_DUMP, DASH_U, user, db>>

\* the bytes the child has written to its stdout after writing n of them
ChildOutput(n) == [i \in 1..n |-> i]

(***************************************************************************)
(* Credential providers (minio-go credentials.Chain), main.go:81-88.       *)
(***************************************************************************)
NoCreds == [id |-> "", secret |-> ""]

\* the chain with the credentials file consulted before the environment
ProvidersFileFirst == <<"FileAWSCredentials", "EnvAWS", "IAM", "EnvMinio">>

defaultAWSCredProviders == <<"EnvAWS", "FileAWSCredentials", "IAM", "EnvMinio">>

\* what one provider retrieves from environment e and outside sources s
Retrieve(p, e, s) ==
    CASE p = "EnvAWS" ->
            [id |-> e.AWS_ACCESS_KEY_ID, secret |-> e.AWS_SECRET_ACCESS_KEY]
      [] p = "FileAWSCredentials" ->
            IF s.file THEN [id |-> "file-id", secret |-> "file-secret"] ELSE NoCreds
      [] p = "IAM" ->
            IF s.iam THEN [id |-> "iam-id", secret |-> "iam-secret"] ELSE NoCreds
      [] p = "EnvMinio" ->
            [id |-> e.MINIO_ACCESS_KEY, secret |-> e.MINIO_SECRET_KEY]

RECURSIVE ChainFrom(_, _, _)
\* Chain.Retrieve: the first provider whose value is not empty, else anonymous
ChainFrom(ps, e, s) ==
    IF ps = <<>> THEN [provider |-> "anonymous", id |-> "", secret |-> ""]
    ELSE LET v == Retrieve(Head(ps), e, s)
         IN  IF v.id = "" /\ v.secret = "" THEN ChainFrom(Tail(ps), e, s)
             ELSE [provider |-> Head(ps), id |-> v.id, secret |-> v.secret]

ChainRetrieve(e, s) == ChainFrom(defaultAWSCredProviders, e, s)

(***************************************************************************)
(* Input sets.                                                             *)
(***************************************************************************)
Containers == {<<"c">>, <<"k">>}
Users == {<<"u">>, <<"d">>}
DBNames == {<<>>, <<"d">>, <<"e", ".", "f">>, <<".", ".">>, <<"d", "/", "e">>}
Prefixes == {DefaultPrefix, <<"d">>, <<>>, <<"p", "/">>, <<".">>}
KeyIDs == {"", "flag-id"}
SecretKeys == {"", "flag-secret"}
EnvKeyIDs == {"", "env-id"}
EnvSecretKeys == {"", "env-secret"}
DumpSizes == {0, 1, MaxDump}
ExitStatuses == {0, 1}
MinioEnvs == {NoCreds, [id |-> "minio-id", secret |-> "minio-secret"]}

Times ==
    { [year |-> 2024, month |-> 2, day |-> 29, hour |-> 23, min |-> 5, sec |-> 9, nsec |-> ns]
        : ns \in {0, 120000000, 123456789} }

VARIABLES
    flags,          \* the parsed Flags structure
    env,            \* the process environment
    sources,        \* which outside credential sources exist
    cmdPlan,        \* what the dump command will do: bytes written, exit status
    pc,             \* position of the main goroutine
    err,            \* the error Backup returns ("nil" when none)
    exitCode,       \* -1 while the process runs, then its exit status
    tmpDir,         \* "none", "exists" or "removed"
    removeAllCalls, \* calls of os.RemoveAll
    argv,           \* the command line handed to exec
    cmdState,       \* "none", "running", "exited", "reaped", "startfailed"
    cmdWritten,     \* bytes the child has written to stdout
    pipe,           \* bytes in the kernel pipe
    rdClosed,       \* the parent's read end of the pipe is closed
    wrOpen,         \* some write end of the pipe is open
    cpc,            \* position of the copier: "none", "read", "write", "done"
    buf,            \* the bytes io.Copy holds between Read and Write
    copyErr,        \* the write to the gzip writer failed
    wg,             \* the WaitGroup counter
    zwIn,           \* bytes written to the gzip writer
    zwState,        \* "none", "open", "closed"
    fw,             \* the output file handle: "none", "open", "closed"
    fr,             \* the upload file handle: "none", "open", "closed"
    dumpStarts,     \* calls of cmd.Start
    putCalls,       \* calls of PutObject
    putState,       \* "none", "inflight", "ok", "failed"
    now,            \* the time.Now() of the object key
    objectName,     \* the object key
    credsUsed       \* the credentials the request is signed with

vars ==
    <<flags, env, sources, cmdPlan, pc, err, exitCode, tmpDir, removeAllCalls,
      argv, cmdState, cmdWritten, pipe, rdClosed, wrOpen, cpc, buf, copyErr, wg,
      zwIn, zwState, fw, fr, dumpStarts, putCalls, putState, now, objectName,
      credsUsed>>

inputVars == <<flags, sources, cmdPlan>>
dumpVars ==
    <<argv, cmdState, cmdWritten, pipe, rdClosed, wrOpen, cpc, buf, copyErr, wg,
      zwIn, zwState, fw, dumpStarts>>
uploadVars == <<fr, putCalls, putState, now, objectName, credsUsed>>

NoTime ==
    [year |-> 0, month |-> 0, day |-> 0, hour |-> 0, min |-> 0, sec |-> 0, nsec |-> 0]

\* the state of a freshly started process, whatever its inputs
InitRest ==
    /\ pc = "parse"
    /\ err = "nil"
    /\ exitCode = -1
    /\ tmpDir = "none"
    /\ removeAllCalls = 0
    /\ argv = <<>>
    /\ cmdState = "none"
    /\ cmdWritten = 0
    /\ pipe = <<>>
    /\ rdClosed = FALSE
    /\ wrOpen = FALSE
    /\ cpc = "none"
    /\ buf = <<>>
    /\ copyErr = FALSE
    /\ wg = 0
    /\ zwIn = <<>>
    /\ zwState = "none"
    /\ fw = "none"
    /\ fr = "none"
    /\ dumpStarts = 0
    /\ putCalls = 0
    /\ putState = "none"
    /\ now = NoTime
    /\ objectName = <<>>
    /\ credsUsed = [provider |-> "none", id |-> "", secret |-> ""]

\* every command line and object key, two credential situations
Init ==
    /\ flags \in [ContainerNameOrID : Containers, DBName : DBNames, DBUser : Users,
                  Prefix : Prefixes, AWSAccessKeyID : {"flag-id"},
                  AWSSecretAccessKey : {"flag-secret"}]
    /\ env \in [AWS_ACCESS_KEY_ID : {""}, AWS_SECRET_ACCESS_KEY : {""},
                MINIO_ACCESS_KEY : {""}, MINIO_SECRET_KEY : {""}]
    /\ sources \in [file : {FALSE}, iam : BOOLEAN]
    /\ cmdPlan \in [size : DumpSizes, status : ExitStatuses]
    /\ InitRest

\* every credential situation, one command line
InitCreds ==
    /\ flags \in [ContainerNameOrID : {<<"c">>}, DBName : {<<"d">>}, DBUser : {<<"u">>},
                  Prefix : {DefaultPrefix}, AWSAccessKeyID : KeyIDs,
                  AWSSecretAccessKey : SecretKeys]
    /\ env \in { [AWS_ACCESS_KEY_ID |-> a, AWS_SECRET_ACCESS_KEY |-> b,
                  MINIO_ACCESS_KEY |-> m.id, MINIO_SECRET_KEY |-> m.secret]
                    : a \in EnvKeyIDs, b \in EnvSecretKeys, m \in MinioEnvs }
    /\ sources \in [file : BOOLEAN, iam : BOOLEAN]
    /\ cmdPlan \in [size : {1}, status : {0}]
    /\ InitRest

\* every behaviour of the dump command, one configuration
InitDump ==
    /\ flags \in [ContainerNameOrID : {<<"c">>}, DBName : {<<"d">>}, DBUser : {<<"u">>},
                  Prefix : {DefaultPrefix}, AWSAccessKeyID : {""},
                  AWSSecretAccessKey : {""}]
    /\ env \in [AWS_ACCESS_KEY_ID : {"env-id"}, AWS_SECRET_ACCESS_KEY : {"env-secret"},
                MINIO_ACCESS_KEY : {""}, MINIO_SECRET_KEY : {""}]
    /\ sources \in [file : {FALSE}, iam : {FALSE}]
    /\ cmdPlan \in [size : 0..MaxDump, status : ExitStatuses]
    /\ InitRest

(***************************************************************************)
(* main: flag parsing and the environment (main.go:48-72).                 *)
(***************************************************************************)
\* log.Fatal / log.Fatalln: os.Exit(1), deferred calls do not run
Fatal ==
    /\ pc' = "exited"
    /\ exitCode' = 1

\* ff.Parse
Parse ==
    /\ pc = "parse"
    /\ \/ /\ pc' = "setenv"
          /\ UNCHANGED exitCode
       \/ Fatal
    /\ UNCHANGED <<inputVars, env, err, tmpDir, removeAllCalls, dumpVars, uploadVars>>

\* if value != "" { os.Setenv(name, value) }
Setenv(e, name, value) ==
    IF value # "" THEN [e EXCEPT ![name] = value] ELSE e

ExportKeys ==
    /\ pc = "setenv"
    /\ env' = Setenv(Setenv(env, "AWS_SECRET_ACCESS_KEY", flags.AWSSecretAccessKey),
                     "AWS_ACCESS_KEY_ID", flags.AWSAccessKeyID)
    /\ pc' = "url_parse"
    /\ UNCHANGED <<inputVars, err, exitCode, tmpDir, removeAllCalls, dumpVars, uploadVars>>

(***************************************************************************)
(* Backup up to the temporary directory (main.go:74-108).                  *)
(***************************************************************************)
\* url.Parse(flags.Endpoint)
UrlParse ==
    /\ pc = "url_parse"
    /\ \/ /\ pc' = "minio_new"
          /\ UNCHANGED exitCode
       \/ Fatal
    /\ UNCHANGED <<inputVars, env, err, tmpDir, removeAllCalls, dumpVars, uploadVars>>

\* credentials.NewChainCredentials and minio.New
MinioNew ==
    /\ pc = "minio_new"
    /\ \/ /\ pc' = "mkdir_temp"
          /\ UNCHANGED exitCode
       \/ Fatal
    /\ UNCHANGED <<inputVars, env, err, tmpDir, removeAllCalls, dumpVars, uploadVars>>

\* os.MkdirTemp; the removal is deferred only when it succeeded
MkdirTemp ==
    /\ pc = "mkdir_temp"
    /\ \/ /\ tmpDir' = "exists"
          /\ pc' = "stdout_pipe"
          /\ UNCHANGED err
       \/ /\ err' = "mkdir_temp"
          /\ pc' = "main_check"
          /\ UNCHANGED tmpDir
    /\ UNCHANGED <<inputVars, env, exitCode, removeAllCalls, dumpVars, uploadVars>>

(***************************************************************************)
(* DumpDB, main goroutine (main.go:134-168).                               *)
(***************************************************************************)
\* args, exec.CommandContext, cmd.StdoutPipe
StdoutPipe ==
    /\ pc = "stdout_pipe"
    /\ argv' = Args(flags.ContainerNameOrID, flags.DBName, flags.DBUser)
    /\ \/ /\ wrOpen' = TRUE
          /\ pc' = "os_create"
          /\ UNCHANGED err
       \/ /\ err' = "stdout_pipe"
          /\ pc' = "remove_all"
          /\ UNCHANGED wrOpen
    /\ UNCHANGED <<inputVars, env, exitCode, tmpDir, removeAllCalls, cmdState, cmdWritten,
                   pipe, rdClosed, cpc, buf, copyErr, wg, zwIn, zwState, fw, dumpStarts,
                   uploadVars>>

\* os.Create, gzip.NewWriter and the two deferred Close calls
OsCreate ==
    /\ pc = "os_create"
    /\ \/ /\ fw' = "open"
          /\ zwState' = "open"
          /\ pc' = "go_copier"
          /\ UNCHANGED err
       \/ /\ err' = "os_create"
          /\ pc' = "remove_all"
          /\ UNCHANGED <<fw, zwState>>
    /\ UNCHANGED <<inputVars, env, exitCode, tmpDir, removeAllCalls, argv, cmdState,
                   cmdWritten, pipe, rdClosed, wrOpen, cpc, buf, copyErr, wg, zwIn,
                   dumpStarts, uploadVars>>

\* wg.Add(1); go func() { defer wg.Done(); io.Copy(zw, stdout) }()
GoCopier ==
    /\ pc = "go_copier"
    /\ wg' = wg + 1
    /\ cpc' = "read"
    /\ pc' = "cmd_start"
    /\ UNCHANGED <<inputVars, env, err, exitCode, tmpDir, removeAllCalls, argv, cmdState,
                   cmdWritten, pipe, rdClosed, wrOpen, buf, copyErr, zwIn, zwState, fw,
                   dumpStarts, uploadVars>>

\* cmd.Run, first half: cmd.Start.  A failed start closes both pipe ends.
CmdStart ==
    /\ pc = "cmd_start"
    /\ dumpStarts' = dumpStarts + 1
    /\ \/ /\ cmdState' = "running"
          /\ pc' = "cmd_wait"
          /\ UNCHANGED <<rdClosed, wrOpen>>
       \/ /\ cmdState' = "startfailed"
          /\ rdClosed' = TRUE
          /\ wrOpen' = FALSE
          /\ pc' = "wg_wait"
    /\ UNCHANGED <<inputVars, env, err, exitCode, tmpDir, removeAllCalls, argv, cmdWritten,
                   pipe, cpc, buf, copyErr, wg, zwIn, zwState, fw, uploadVars>>

\* cmd.Run, second half: cmd.Wait reaps the child, then closes the read end;
\* what is still in the pipe is discarded.  The result of Run is dropped.
CmdWait ==
    /\ pc = "cmd_wait"
    /\ cmdState = "exited"
    /\ cmdState' = "reaped"
    /\ rdClosed' = TRUE
    /\ pipe' = <<>>
    /\ pc' = "wg_wait"
    /\ UNCHANGED <<inputVars, env, err, exitCode, tmpDir, removeAllCalls, argv, cmdWritten,
                   wrOpen, cpc, buf, copyErr, wg, zwIn, zwState, fw, dumpStarts,
                   uploadVars>>

\* a wg.Wait that does not wait
WgWaitNoBlock ==
    /\ pc = "wg_wait"
    /\ pc' = "zw_close"
    /\ UNCHANGED <<inputVars, env, err, exitCode, tmpDir, removeAllCalls, dumpVars,
                   uploadVars>>

\* wg.Wait()
WgWait ==
    /\ pc = "wg_wait"
    /\ wg = 0
    /\ pc' = "zw_close"
    /\ UNCHANGED <<inputVars, env, err, exitCode, tmpDir, removeAllCalls, dumpVars,
                   uploadVars>>

\* return nil: deferred zw.Close() runs first
ZwClose ==
    /\ pc = "zw_close"
    /\ zwState' = "closed"
    /\ pc' = "f_close"
    /\ UNCHANGED <<inputVars, env, err, exitCode, tmpDir, removeAllCalls, argv, cmdState,
                   cmdWritten, pipe, rdClosed, wrOpen, cpc, buf, copyErr, wg, zwIn, fw,
                   dumpStarts, uploadVars>>

\* then deferred f.Close(); DumpDB returns nil
FClose ==
    /\ pc = "f_close"
    /\ fw' = "closed"
    /\ pc' = "os_open"
    /\ UNCHANGED <<inputVars, env, err, exitCode, tmpDir, removeAllCalls, argv, cmdState,
                   cmdWritten, pipe, rdClosed, wrOpen, cpc, buf, copyErr, wg, zwIn, zwState,
                   dumpStarts, uploadVars>>

(***************************************************************************)
(* The child process: docker exec <container> pg_dump -U <user> <db>.      *)
(***************************************************************************)
\* a stdout that takes any amount of data without blocking the writer
UnboundedRoom == TRUE

\* write(2) on the pipe blocks while the pipe is full
PipeRoom == Len(pipe) < PipeCap

ChildWrite ==
    /\ cmdState = "running"
    /\ cmdWritten < cmdPlan.size
    /\ PipeRoom
    /\ cmdWritten' = cmdWritten + 1
    /\ pipe' = Append(pipe, cmdWritten + 1)
    /\ UNCHANGED <<inputVars, env, pc, err, exitCode, tmpDir, removeAllCalls, argv,
                   cmdState, rdClosed, wrOpen, cpc, buf, copyErr, wg, zwIn, zwState, fw,
                   dumpStarts, uploadVars>>

\* the child exits with cmdPlan.status; its write end is closed
ChildExit ==
    /\ cmdState = "running"
    /\ cmdWritten = cmdPlan.size
    /\ cmdState' = "exited"
    /\ wrOpen' = FALSE
    /\ UNCHANGED <<inputVars, env, pc, err, exitCode, tmpDir, removeAllCalls, argv,
                   cmdWritten, pipe, rdClosed, cpc, buf, copyErr, wg, zwIn, zwState, fw,
                   dumpStarts, uploadVars>>

(***************************************************************************)
(* The copier goroutine: io.Copy(zw, stdout), then wg.Done().              *)
(***************************************************************************)
\* io.Copy returns and the goroutine ends without calling wg.Done
CopierEndNoDone ==
    /\ cpc' = "done"
    /\ UNCHANGED wg

\* io.Copy returns; the deferred wg.Done() runs
CopierEnd ==
    /\ cpc' = "done"
    /\ wg' = wg - 1

\* stdout.Read: an error once the read end is closed, else the data at hand,
\* else end of file once no write end is open, else it blocks
CopierRead ==
    /\ cpc = "read"
    /\ \/ /\ rdClosed
          /\ CopierEnd
          /\ UNCHANGED <<pipe, buf>>
       \/ /\ ~rdClosed
          /\ Len(pipe) > 0
          /\ buf' = SubSeq(pipe, 1, Min(CopyBuf, Len(pipe)))
          /\ pipe' = SubSeq(pipe, Min(CopyBuf, Len(pipe)) + 1, Len(pipe))
          /\ cpc' = "write"
          /\ UNCHANGED wg
       \/ /\ ~rdClosed
          /\ Len(pipe) = 0
          /\ ~wrOpen
          /\ CopierEnd
          /\ UNCHANGED <<pipe, buf>>
    /\ UNCHANGED <<inputVars, env, pc, err, exitCode, tmpDir, removeAllCalls, argv,
                   cmdState, cmdWritten, rdClosed, wrOpen, copyErr, zwIn, zwState, fw,
                   dumpStarts, uploadVars>>

\* zw.Write: the chunk enters the compressor, or the write fails and io.Copy ends
CopierWrite ==
    /\ cpc = "write"
    /\ buf' = <<>>
    /\ \/ /\ zwIn' = zwIn \o buf
          /\ cpc' = "read"
          /\ UNCHANGED <<wg, copyErr>>
       \/ /\ copyErr' = TRUE
          /\ CopierEnd
          /\ UNCHANGED zwIn
    /\ UNCHANGED <<inputVars, env, pc, err, exitCode, tmpDir, removeAllCalls, argv,
                   cmdState, cmdWritten, pipe, rdClosed, wrOpen, zwState, fw, dumpStarts,
                   uploadVars>>

(***************************************************************************)
(* Backup after DumpDB: the upload and the deferred calls (main.go:115-132)*)
(***************************************************************************)
\* an os.Open whose failure ends the process at once, as log.Fatalln would
OsOpenFatal ==
    /\ pc = "os_open"
    /\ \/ /\ fr' = "open"
          /\ pc' = "object_name"
          /\ UNCHANGED <<err, exitCode>>
       \/ /\ err' = "os_open"
          /\ Fatal
          /\ UNCHANGED fr
    /\ UNCHANGED <<inputVars, env, tmpDir, removeAllCalls, dumpVars, putCalls, putState,
                   now, objectName, credsUsed>>

\* os.Open(dumpName); defer f.Close()
OsOpen ==
    /\ pc = "os_open"
    /\ \/ /\ fr' = "open"
          /\ pc' = "object_name"
          /\ UNCHANGED err
       \/ /\ err' = "os_open"
          /\ pc' = "remove_all"
          /\ UNCHANGED fr
    /\ UNCHANGED <<inputVars, env, exitCode, tmpDir, removeAllCalls, dumpVars, putCalls,
                   putState, now, objectName, credsUsed>>

\* objectName := path.Join(prefix, db, time.Now().UTC().Format(...) + ".sql.gz")
MakeObjectName ==
    /\ pc = "object_name"
    /\ \E t \in Times :
          /\ now' = t
          /\ objectName' = ObjectName(flags.Prefix, flags.DBName, t)
    /\ pc' = "put_object"
    /\ UNCHANGED <<inputVars, env, err, exitCode, tmpDir, removeAllCalls, dumpVars, fr,
                   putCalls, putState, credsUsed>>

\* mc.PutObject is entered: the request is signed with the chain's credentials
PutObjectCall ==
    /\ pc = "put_object"
    /\ putCalls' = putCalls + 1
    /\ putState' = "inflight"
    /\ credsUsed' = ChainRetrieve(env, sources)
    /\ pc' = "put_wait"
    /\ UNCHANGED <<inputVars, env, err, exitCode, tmpDir, removeAllCalls, dumpVars, fr,
                   now, objectName>>

\* a PutObject whose failure is answered by calling it again
PutObjectReturnRetry ==
    /\ pc = "put_wait"
    /\ \/ /\ putState' = "ok"
          /\ pc' = "f_close_r"
          /\ UNCHANGED err
       \/ /\ putState' = "failed"
          /\ err' = "put_object"
          /\ pc' = "put_object"
    /\ UNCHANGED <<inputVars, env, exitCode, tmpDir, removeAllCalls, dumpVars, fr, putCalls,
                   now, objectName, credsUsed>>

\* mc.PutObject returns, with or without an error
PutObjectReturn ==
    /\ pc = "put_wait"
    /\ \/ /\ putState' = "ok"
          /\ UNCHANGED err
       \/ /\ putState' = "failed"
          /\ err' = "put_object"
    /\ pc' = "f_close_r"
    /\ UNCHANGED <<inputVars, env, exitCode, tmpDir, removeAllCalls, dumpVars, fr, putCalls,
                   now, objectName, credsUsed>>

\* Backup returns: deferred f.Close() of the upload handle
FCloseRead ==
    /\ pc = "f_close_r"
    /\ fr' = "closed"
    /\ pc' = "remove_all"
    /\ UNCHANGED <<inputVars, env, err, exitCode, tmpDir, removeAllCalls, dumpVars,
                   putCalls, putState, now, objectName, credsUsed>>

\* Backup returns: deferred os.RemoveAll(tmpDir); a failure is only logged
RemoveAll ==
    /\ pc = "remove_all"
    /\ removeAllCalls' = removeAllCalls + 1
    /\ tmpDir' \in {"removed", "exists"}
    /\ pc' = "main_check"
    /\ UNCHANGED <<inputVars, env, err, exitCode, dumpVars, uploadVars>>

\* main: if err := Backup(...); err != nil { log.Fatal(err) }, else return
MainCheck ==
    /\ pc = "main_check"
    /\ pc' = "exited"
    /\ exitCode' = IF err # "nil" THEN 1 ELSE 0
    /\ UNCHANGED <<inputVars, env, err, tmpDir, removeAllCalls, dumpVars, uploadVars>>

(***************************************************************************)
(* The specifications.                                                     *)
(***************************************************************************)
\* the main goroutine outside DumpDB
BackupStep ==
    \/ Parse
    \/ ExportKeys
    \/ UrlParse
    \/ MinioNew
    \/ MkdirTemp
    \/ OsOpen
    \/ MakeObjectName
    \/ PutObjectCall
    \/ PutObjectReturn
    \/ FCloseRead
    \/ RemoveAll
    \/ MainCheck

\* the main goroutine inside DumpDB
DumpDBStep ==
    \/ StdoutPipe
    \/ OsCreate
    \/ GoCopier
    \/ CmdStart
    \/ CmdWait
    \/ WgWait
    \/ ZwClose
    \/ FClose

MainStep == BackupStep \/ DumpDBStep

CopierStep == CopierRead \/ CopierWrite

ChildStep == ChildWrite \/ ChildExit

Next == MainStep \/ CopierStep \/ ChildStep

\* the pipeline over every command line and object key
Spec == Init /\ [][Next]_vars

\* the pipeline over every credential situation
CredSpec == InitCreds /\ [][Next]_vars

\* inside DumpDB the Go scheduler runs every runnable goroutine, and the
\* kernel runs the child
Fairness == WF_vars(DumpDBStep) /\ WF_vars(CopierStep) /\ WF_vars(ChildStep)

\* the pipeline over every behaviour of the dump command, fairly scheduled
LiveSpec == InitDump /\ [][Next]_vars /\ Fairness

(***************************************************************************)
(* Properties.                                                             *)
(***************************************************************************)
\* DumpDB has returned to Backup
DumpReturned == fw = "closed"

\* the dump command failed to start or exited with a non-zero status
DumpFailed ==
    \/ cmdState = "startfailed"
    \/ cmdState \in {"exited", "reaped"} /\ cmdPlan.status # 0

\* C1: when DumpDB has returned after the command ran and exited, every byte
\* the command wrote to stdout has been written to the gzip writer (the
\* compressor itself having accepted every write).
C1_NoOutputLost ==
    (DumpReturned /\ cmdState = "reaped" /\ ~copyErr) => zwIn = ChildOutput(cmdWritten)

\* the uploader is at work: from os.Open of the dump file to PutObject's return
Uploading ==
    \/ pc \in {"os_open", "object_name", "put_object", "put_wait"}
    \/ fr = "open"
    \/ putState # "none"

\* C2: whenever the uploader opens, reads or sends the file, the dump command
\* is over, the copier has finished, the gzip writer is closed and the output
\* file is closed.
C2_UploadAfterDump ==
    Uploading =>
        /\ cmdState \in {"reaped", "startfailed"}
        /\ cpc = "done"
        /\ zwState = "closed"
        /\ fw = "closed"

C2_Witness == putState = "inflight" /\ cmdState = "reaped" /\ Len(zwIn) = MaxDump

\* C3: a process that ends after MkdirTemp succeeded has called os.RemoveAll,
\* and os.RemoveAll is never called while PutObject is pending or before a
\* later PutObject.
C3_TempDirCleanup ==
    /\ (pc = "exited" /\ tmpDir # "none") => removeAllCalls >= 1
    /\ pc = "remove_all" => putState # "inflight"
    /\ removeAllCalls > 0 => (putState # "inflight" /\ pc \in {"main_check", "exited"})

C3_Witness == pc = "exited" /\ exitCode = 1 /\ err = "os_open" /\ removeAllCalls = 1

\* the object key the claim describes: prefix "/" db "/" timestamp ".sql.gz"
ThreeSegmentKey == flags.Prefix \o SLASH \o flags.DBName \o SLASH \o Format(now) \o SQL_GZ

\* C4 as stated: for every prefix and database name the key passed to
\* PutObject is exactly prefix/db/timestamp.sql.gz.
C4_KeyAlwaysThreeSegments == putCalls > 0 => objectName = ThreeSegmentKey

\* a non-empty name without "/" that is neither "." nor ".."
PlainSegment(s) ==
    /\ Len(s) > 0
    /\ s # DOT
    /\ s # DOTDOT
    /\ \A i \in 1..Len(s) : s[i] # "/"

\* C4 amended: when the prefix and the database name are each one plain path
\* segment, the key passed to PutObject is exactly prefix/db/timestamp.sql.gz.
C4_KeyOfPlainSegments ==
    (putCalls > 0 /\ PlainSegment(flags.Prefix) /\ PlainSegment(flags.DBName))
        => objectName = ThreeSegmentKey

C4_Witness ==
    /\ putCalls > 0
    /\ flags.Prefix = DefaultPrefix
    /\ flags.DBName = <<"e", ".", "f">>
    /\ now.nsec = 120000000

\* C5: the request is signed with the first source, in the order explicit
\* keys, environment, credentials file, instance identity, that yields
\* credentials; a key given explicitly is used instead of the environment's.
C5_CredentialPrecedence ==
    LET id == IF flags.AWSAccessKeyID # "" THEN flags.AWSAccessKeyID
              ELSE env.AWS_ACCESS_KEY_ID
        secret == IF flags.AWSSecretAccessKey # "" THEN flags.AWSSecretAccessKey
                  ELSE env.AWS_SECRET_ACCESS_KEY
    IN  putCalls > 0 =>
            IF id # "" \/ secret # ""
            THEN credsUsed = [provider |-> "EnvAWS", id |-> id, secret |-> secret]
            ELSE IF sources.file
            THEN credsUsed = [provider |-> "FileAWSCredentials", id |-> "file-id",
                              secret |-> "file-secret"]
            ELSE IF sources.iam
            THEN credsUsed = [provider |-> "IAM", id |-> "iam-id", secret |-> "iam-secret"]
            ELSE credsUsed.provider \in {"EnvMinio", "anonymous"}

C5_Witness ==
    /\ putCalls > 0
    /\ credsUsed = [provider |-> "EnvAWS", id |-> "flag-id", secret |-> "env-secret"]
    /\ sources.file
    /\ sources.iam

\* C6: the command started is docker exec <container> pg_dump -U <user> <db>,
\* seven arguments in that order, and what reaches the compressor is the
\* command's stdout, in order.
C6_DumpCommand ==
    dumpStarts > 0 =>
        /\ argv = <<DOCKER, EXEC, flags.ContainerNameOrID, PG_DUMP, DASH_U,
                    flags.DBUser, flags.DBName>>
        /\ Len(argv) = 7
        /\ IsPrefix(zwIn, ChildOutput(cmdWritten))

C6_Witness ==
    /\ cmdState = "running"
    /\ Len(zwIn) > 0
    /\ flags.DBUser # flags.DBName
    /\ flags.ContainerNameOrID = <<"k">>

\* C7: the dump command is started at most once, PutObject is called at most
\* once, and once a stage has failed the process only unwinds and exits.
C7_SingleAttempt ==
    /\ dumpStarts <= 1
    /\ putCalls <= 1
    /\ err # "nil" => pc \in {"f_close_r", "remove_all", "main_check", "exited"}
    /\ pc = "exited" => exitCode \in {0, 1}

C7_Witness == pc = "exited" /\ err = "put_object" /\ putCalls = 1 /\ dumpStarts = 1

\* C8: the dump data held between the command's stdout and the compressor
\* never exceeds the pipe capacity plus the copy buffer, whatever the size of
\* the dump.
C8_BoundedBuffering == Len(pipe) + Len(buf) <= PipeCap + CopyBuf

C8_Witness ==
    /\ Len(pipe) + Len(buf) = PipeCap + CopyBuf
    /\ cmdWritten < cmdPlan.size
    /\ cmdState = "running"

\* C9: when the dump command failed to start or exited with a non-zero
\* status, PutObject is never called and Backup returns an error.
C9_NoUploadAfterFailedDump ==
    DumpFailed => (putCalls = 0 /\ (DumpReturned => err # "nil"))

\* C10: once the dump command has exited or failed to start, DumpDB returns.
C10_DumpDBReturns == (cmdState \in {"exited", "startfailed"}) ~> DumpReturned

C10_Witness == DumpReturned /\ cmdState = "reaped" /\ Len(zwIn) < cmdWritten /\ ~copyErr

====
